---- MODULE Spec2Model ----
(***************************************************************************)
(* Model of eternal_chess.py: the self-rescheduling game loop play_chess,  *)
(* the result recorder (record_result / insert_chess_game), the statistic  *)
(* queries (get_n_of_games .. get_total_moves, get_state) and the request  *)
(* handler index, which reads the statistics concurrently with the loop.   *)
(*                                                                         *)
(* The chess rules come from the python-chess library.  A board is kept as *)
(* its move stack, side to move, full-move number and termination status;  *)
(* a move is named by its effect on the game ("quiet", "mate", "stale").   *)
(***************************************************************************)
EXTENDS Integers, Sequences, FiniteSets, TLC

\* ---- bounds ------------------------------------------------------------
NThreads == 2      \* thread slots available to timer callbacks
MaxGames == 2      \* ticks stop being fired once this many rows are stored
MaxPlies == 5      \* a game this long ends by the move-count draw rule
EarliestEnd == 4   \* first ply that may mate or stalemate (fool's mate)
MaxClients == 1    \* socket.io clients that may be connected at a time

Threads == 1..NThreads

VARIABLES
    board,      \* the chess.Board object shared by all ticks
    db,         \* rows of table chess_game, in insertion order
    events,     \* everything emitted through socketio.emit, in order
    timers,     \* number of started threading.Timer objects not yet fired
    tpc,        \* per thread: position inside play_chess ("idle": no tick)
    tmove,      \* per thread: local variable move of play_chess
    tk,         \* per thread: what the tick it runs has done so far
    finished,   \* boards of the games that reached a terminal status
    failures,   \* number of INSERT statements that raised
    opc,        \* request handler index: position inside get_state
    osnap,      \* request handler index: the dict get_state is building
    stopped,    \* socketio.run(app) has returned: the server is shut down
    clients     \* number of socket.io clients currently connected

vars == <<board, db, events, timers, tpc, tmove, tk, finished, failures,
          opc, osnap, stopped, clients>>

\* ---- python-chess board ------------------------------------------------
Other(side) == IF side = "white" THEN "black" ELSE "white"

InitBoard ==
    [move_stack |-> <<>>, turn |-> "white", fullmove_number |-> 1,
     status |-> "inprogress"]

is_game_over(b) == b.status # "inprogress"

\* Board.result(): the mated side is the side to move
result(b) ==
    CASE b.status = "checkmate" ->
            (IF b.turn = "white" THEN "0-1" ELSE "1-0")
      [] b.status \in {"stalemate", "seventyfive"} -> "1/2-1/2"
      [] OTHER -> "*"

\* list(board.legal_moves): empty after mate or stalemate
legal_moves(b) ==
    IF b.status \in {"checkmate", "stalemate"} THEN <<>>
    ELSE IF Len(b.move_stack) + 1 >= EarliestEnd
         THEN <<"quiet", "mate", "stale">>
         ELSE <<"quiet">>

\* Board.push(move)
push(b, m) ==
    [move_stack |-> Append(b.move_stack, m),
     turn |-> Other(b.turn),
     fullmove_number |->
        IF b.turn = "black" THEN b.fullmove_number + 1
                            ELSE b.fullmove_number,
     status |->
        CASE m = "mate" -> "checkmate"
          [] m = "stale" -> "stalemate"
          [] OTHER -> IF Len(b.move_stack) + 1 >= MaxPlies
                      THEN "seventyfive" ELSE "inprogress"]

\* Board.fen(): the position reached, side to move, move number
fen(b) ==
    [position |-> b.move_stack, turn |-> b.turn,
     fullmove |-> b.fullmove_number]

\* ---- statistic queries -------------------------------------------------
RECURSIVE CountRows(_, _, _)
CountRows(rows, field, value) ==
    IF rows = <<>> THEN 0
    ELSE (IF Head(rows)[field] = value THEN 1 ELSE 0)
         + CountRows(Tail(rows), field, value)

RECURSIVE TotalRows(_)
TotalRows(rows) ==
    IF rows = <<>> THEN 0 ELSE Head(rows).n_moves + TotalRows(Tail(rows))

get_n_of_games(rows) == Len(rows)
get_n_white_wins(rows) == CountRows(rows, "winner", "white")
get_n_black_wins(rows) == CountRows(rows, "winner", "black")
get_n_draws(rows) == CountRows(rows, "is_draw", 1)
\* variant: COUNT(n_moves) in place of TOTAL(n_moves)
get_total_moves_counts(rows) == Len(rows)

get_total_moves(rows) == TotalRows(rows)

get_state(rows) ==
    [n_games |-> get_n_of_games(rows),
     n_white_wins |-> get_n_white_wins(rows),
     n_black_wins |-> get_n_black_wins(rows),
     n_draws |-> get_n_draws(rows),
     n_moves |-> get_total_moves(rows)]

\* ---- result recorder ---------------------------------------------------
\* variant: the Round header is the number of stored games, without the + 1
configure_pgn_counts(b, rows) ==
    [Round |-> get_n_of_games(rows), Result |-> result(b),
     moves |-> b.move_stack]

configure_pgn(b, rows) ==
    [Round |-> get_n_of_games(rows) + 1, Result |-> result(b),
     moves |-> b.move_stack]

\* variant: the winner column is not cleared for a drawn game
record_result_keeps_winner(b, rows) ==
    LET is_draw == IF result(b) = "1/2-1/2" THEN 1 ELSE 0
        winner == IF result(b) = "1-0" THEN "white" ELSE "black"
    IN [is_draw |-> is_draw,
        n_moves |-> b.fullmove_number,
        winner |-> winner,
        pgn |-> configure_pgn(b, rows)]

\* variant: the two result strings are tested the wrong way round
record_result_swapped(b, rows) ==
    LET is_draw == IF result(b) = "1/2-1/2" THEN 1 ELSE 0
        winner == IF result(b) = "0-1" THEN "white" ELSE "black"
    IN [is_draw |-> is_draw,
        n_moves |-> b.fullmove_number,
        winner |-> IF is_draw = 1 THEN "null" ELSE winner,
        pgn |-> configure_pgn(b, rows)]

record_result(b, rows) ==
    LET is_draw == IF result(b) = "1/2-1/2" THEN 1 ELSE 0
        winner == IF result(b) = "1-0" THEN "white" ELSE "black"
    IN [is_draw |-> is_draw,
        n_moves |-> b.fullmove_number,
        winner |-> IF is_draw = 1 THEN "null" ELSE winner,
        pgn |-> configure_pgn(b, rows)]

\* variant: INSERT OR REPLACE on a table keyed by the outcome, a row with
\* the same outcome as the latest row takes its place
insert_or_replace(rows, row) ==
    IF rows # <<>> /\ rows[Len(rows)].winner = row.winner
    THEN [rows EXCEPT ![Len(rows)] = row]
    ELSE Append(rows, row)

insert_chess_game(rows, row) == Append(rows, row)

\* ---- the tick: play_chess ----------------------------------------------
NewTick ==
    [terminal |-> FALSE, records |-> 0, game_overs |-> 0, resets |-> 0,
     moves |-> 0, move_events |-> 0, legal |-> TRUE, crashed |-> FALSE]

EmptySnap ==
    [n_games |-> 0, n_white_wins |-> 0, n_black_wins |-> 0, n_draws |-> 0,
     n_moves |-> 0]

Init ==
    /\ board = InitBoard
    /\ db = <<>>
    /\ events = <<>>
    /\ timers = 0
    /\ tpc = [t \in Threads |-> IF t = 1 THEN "check" ELSE "idle"]
    /\ tmove = [t \in Threads |-> "none"]
    /\ tk = [t \in Threads |-> NewTick]
    /\ finished = <<>>
    /\ failures = 0
    /\ opc = "idle"
    /\ osnap = EmptySnap
    /\ stopped = FALSE
    /\ clients = 0

\* the timer thread runs its callback: lambda: play_chess(board); the
\* thread takes the lowest free slot
TimerFire(t) ==
    /\ timers > 0
    /\ tpc[t] = "idle"
    /\ \A u \in Threads : tpc[u] = "idle" => t <= u
    /\ Len(db) < MaxGames
    /\ timers' = timers - 1
    /\ tpc' = [tpc EXCEPT ![t] = "check"]
    /\ tk' = [tk EXCEPT ![t] = NewTick]
    /\ tmove' = [tmove EXCEPT ![t] = "none"]
    /\ UNCHANGED <<board, db, events, finished, failures, opc, osnap>>
    /\ UNCHANGED <<stopped, clients>>

\* variant: the next timer is started on entry to play_chess
CheckStartsTimer(t) ==
    /\ tpc[t] = "check"
    /\ timers' = timers + 1
    /\ tpc' = [tpc EXCEPT ![t] =
                  IF is_game_over(board) THEN "record" ELSE "select"]
    /\ tk' = [tk EXCEPT ![t].terminal = is_game_over(board)]
    /\ UNCHANGED <<board, db, events, tmove, finished, failures, opc, osnap>>
    /\ UNCHANGED <<stopped, clients>>

\* variant: the result is recorded on every tick, terminal or not
CheckAlwaysRecords(t) ==
    /\ tpc[t] = "check"
    /\ tpc' = [tpc EXCEPT ![t] = "record"]
    /\ tk' = [tk EXCEPT ![t].terminal = is_game_over(board)]
    /\ UNCHANGED <<board, db, events, timers, tmove, finished, failures,
                   opc, osnap>>
    /\ UNCHANGED <<stopped, clients>>

\* variant: the terminal test is left out, every tick goes on to move
CheckNeverFinalizes(t) ==
    /\ tpc[t] = "check"
    /\ tpc' = [tpc EXCEPT ![t] = "select"]
    /\ tk' = [tk EXCEPT ![t].terminal = is_game_over(board)]
    /\ UNCHANGED <<board, db, events, timers, tmove, finished, failures,
                   opc, osnap>>
    /\ UNCHANGED <<stopped, clients>>

\* if board.is_game_over():
Check(t) ==
    /\ tpc[t] = "check"
    /\ tpc' = [tpc EXCEPT ![t] =
                  IF is_game_over(board) THEN "record" ELSE "select"]
    /\ tk' = [tk EXCEPT ![t].terminal = is_game_over(board)]
    /\ UNCHANGED <<board, db, events, timers, tmove, finished, failures,
                   opc, osnap>>
    /\ UNCHANGED <<stopped, clients>>

\* variant: the board is reset as soon as the result is stored
RecordResetsEarly(t) ==
    /\ tpc[t] = "record"
    /\ db' = insert_chess_game(db, record_result(board, db))
    /\ board' = InitBoard
    /\ tpc' = [tpc EXCEPT ![t] = "game_over"]
    /\ tk' = [tk EXCEPT ![t].records = @ + 1]
    /\ UNCHANGED <<events, timers, tmove, finished, failures, opc, osnap>>
    /\ UNCHANGED <<stopped, clients>>

\* record_result(board); the INSERT commits
Record(t) ==
    /\ tpc[t] = "record"
    /\ db' = insert_chess_game(db, record_result(board, db))
    /\ tpc' = [tpc EXCEPT ![t] = "game_over"]
    /\ tk' = [tk EXCEPT ![t].records = @ + 1]
    /\ UNCHANGED <<board, events, timers, tmove, finished, failures,
                   opc, osnap>>
    /\ UNCHANGED <<stopped, clients>>

\* record_result(board); the INSERT raises: nothing in play_chess or above
\* it catches, so the exception ends the thread that runs the tick
RecordFails(t) ==
    /\ tpc[t] = "record"
    /\ failures' = failures + 1
    /\ tpc' = [tpc EXCEPT ![t] = "idle"]
    /\ tk' = [tk EXCEPT ![t].crashed = TRUE]
    /\ UNCHANGED <<board, db, events, timers, tmove, finished, opc, osnap>>
    /\ UNCHANGED <<stopped, clients>>

\* socketio.emit('game_over', get_state())
EmitGameOver(t) ==
    /\ tpc[t] = "game_over"
    /\ events' = Append(events, [type |-> "game_over",
                                 data |-> get_state(db)])
    /\ tpc' = [tpc EXCEPT ![t] = "reset"]
    /\ tk' = [tk EXCEPT ![t].game_overs = @ + 1]
    /\ UNCHANGED <<board, db, timers, tmove, finished, failures, opc, osnap>>
    /\ UNCHANGED <<stopped, clients>>

\* variant: the move is in an else branch, a finalizing tick ends at reset
ResetEndsTick(t) ==
    /\ tpc[t] = "reset"
    /\ board' = InitBoard
    /\ tpc' = [tpc EXCEPT ![t] = "schedule"]
    /\ tk' = [tk EXCEPT ![t].resets = @ + 1]
    /\ UNCHANGED <<db, events, timers, tmove, finished, failures, opc, osnap>>
    /\ UNCHANGED <<stopped, clients>>

\* variant: a drawn game is not reset
ResetSkipsDraw(t) ==
    /\ tpc[t] = "reset"
    /\ board' = IF result(board) = "1/2-1/2" THEN board ELSE InitBoard
    /\ tpc' = [tpc EXCEPT ![t] = "select"]
    /\ tk' = [tk EXCEPT ![t].resets = @ + 1]
    /\ UNCHANGED <<db, events, timers, tmove, finished, failures, opc, osnap>>
    /\ UNCHANGED <<stopped, clients>>

\* board.reset()
Reset(t) ==
    /\ tpc[t] = "reset"
    /\ board' = InitBoard
    /\ tpc' = [tpc EXCEPT ![t] = "select"]
    /\ tk' = [tk EXCEPT ![t].resets = @ + 1]
    /\ UNCHANGED <<db, events, timers, tmove, finished, failures, opc, osnap>>
    /\ UNCHANGED <<stopped, clients>>

\* moves = list(board.legal_moves); move = moves[randint(0, len(moves) - 1)]
\* randint(0, -1) raises when the list is empty
Select(t) ==
    /\ tpc[t] = "select"
    /\ LET moves == legal_moves(board) IN
         IF Len(moves) = 0
         THEN /\ tpc' = [tpc EXCEPT ![t] = "idle"]
              /\ tk' = [tk EXCEPT ![t].crashed = TRUE]
              /\ UNCHANGED tmove
         ELSE /\ \E i \in 0..(Len(moves) - 1) :
                    tmove' = [tmove EXCEPT ![t] = moves[i + 1]]
              /\ tpc' = [tpc EXCEPT ![t] = "push"]
              /\ UNCHANGED tk
    /\ UNCHANGED <<board, db, events, timers, finished, failures, opc, osnap>>
    /\ UNCHANGED <<stopped, clients>>

\* board.push(move)
Push(t) ==
    /\ tpc[t] = "push"
    /\ board' = push(board, tmove[t])
    /\ finished' = IF is_game_over(board') /\ ~is_game_over(board)
                   THEN Append(finished, board') ELSE finished
    /\ tpc' = [tpc EXCEPT ![t] = "emit_move"]
    /\ tk' = [tk EXCEPT ![t].moves = @ + 1,
                        ![t].legal = \E i \in 1..Len(legal_moves(board)) :
                                        legal_moves(board)[i] = tmove[t]]
    /\ UNCHANGED <<db, events, timers, tmove, failures, opc, osnap>>
    /\ UNCHANGED <<stopped, clients>>

\* variant: the position is only broadcast while the game goes on
EmitMoveUnlessOver(t) ==
    /\ tpc[t] = "emit_move"
    /\ events' = IF is_game_over(board) THEN events
                 ELSE Append(events, [type |-> "move", data |-> fen(board)])
    /\ tpc' = [tpc EXCEPT ![t] = "schedule"]
    /\ tk' = [tk EXCEPT ![t].move_events = @ + 1]
    /\ UNCHANGED <<board, db, timers, tmove, finished, failures, opc, osnap>>
    /\ UNCHANGED <<stopped, clients>>

\* socketio.emit('move', {'fen': board.fen()})
EmitMove(t) ==
    /\ tpc[t] = "emit_move"
    /\ events' = Append(events, [type |-> "move", data |-> fen(board)])
    /\ tpc' = [tpc EXCEPT ![t] = "schedule"]
    /\ tk' = [tk EXCEPT ![t].move_events = @ + 1]
    /\ UNCHANGED <<board, db, timers, tmove, finished, failures, opc, osnap>>
    /\ UNCHANGED <<stopped, clients>>

\* variant: the finalizing branch starts a timer of its own as well
ScheduleTwice(t) ==
    /\ tpc[t] = "schedule"
    /\ timers' = timers + (IF tk[t].terminal THEN 2 ELSE 1)
    /\ tpc' = [tpc EXCEPT ![t] = "idle"]
    /\ tmove' = [tmove EXCEPT ![t] = "none"]
    /\ tk' = [tk EXCEPT ![t] = NewTick]
    /\ UNCHANGED <<board, db, events, finished, failures, opc, osnap>>
    /\ UNCHANGED <<stopped, clients>>

\* threading.Timer(interval, lambda: play_chess(board)).start(); return
Schedule(t) ==
    /\ tpc[t] = "schedule"
    /\ timers' = timers + 1
    /\ tpc' = [tpc EXCEPT ![t] = "idle"]
    /\ tmove' = [tmove EXCEPT ![t] = "none"]
    /\ tk' = [tk EXCEPT ![t] = NewTick]
    /\ UNCHANGED <<board, db, events, finished, failures, opc, osnap>>
    /\ UNCHANGED <<stopped, clients>>

\* ---- the request handler: index -> get_state ---------------------------
IndexStart ==
    /\ opc = "idle"
    /\ ~stopped
    /\ opc' = "n_games"
    /\ osnap' = EmptySnap
    /\ UNCHANGED <<board, db, events, timers, tpc, tmove, tk, finished,
                   failures>>
    /\ UNCHANGED <<stopped, clients>>

ReadNGames ==
    /\ opc = "n_games"
    /\ osnap' = [osnap EXCEPT !.n_games = get_n_of_games(db)]
    /\ opc' = "n_white_wins"
    /\ UNCHANGED <<board, db, events, timers, tpc, tmove, tk, finished,
                   failures>>
    /\ UNCHANGED <<stopped, clients>>

ReadWhiteWins ==
    /\ opc = "n_white_wins"
    /\ osnap' = [osnap EXCEPT !.n_white_wins = get_n_white_wins(db)]
    /\ opc' = "n_black_wins"
    /\ UNCHANGED <<board, db, events, timers, tpc, tmove, tk, finished,
                   failures>>
    /\ UNCHANGED <<stopped, clients>>

ReadBlackWins ==
    /\ opc = "n_black_wins"
    /\ osnap' = [osnap EXCEPT !.n_black_wins = get_n_black_wins(db)]
    /\ opc' = "n_draws"
    /\ UNCHANGED <<board, db, events, timers, tpc, tmove, tk, finished,
                   failures>>
    /\ UNCHANGED <<stopped, clients>>

ReadDraws ==
    /\ opc = "n_draws"
    /\ osnap' = [osnap EXCEPT !.n_draws = get_n_draws(db)]
    /\ opc' = "n_moves"
    /\ UNCHANGED <<board, db, events, timers, tpc, tmove, tk, finished,
                   failures>>
    /\ UNCHANGED <<stopped, clients>>

ReadTotalMoves ==
    /\ opc = "n_moves"
    /\ osnap' = [osnap EXCEPT !.n_moves = get_total_moves(db)]
    /\ opc' = "render"
    /\ UNCHANGED <<board, db, events, timers, tpc, tmove, tk, finished,
                   failures>>
    /\ UNCHANGED <<stopped, clients>>

\* return render_template('index.html', **get_state())
Render ==
    /\ opc = "render"
    /\ opc' = "idle"
    /\ osnap' = EmptySnap
    /\ UNCHANGED <<board, db, events, timers, tpc, tmove, tk, finished,
                   failures>>
    /\ UNCHANGED <<stopped, clients>>

\* ---- socket.io lifecycle handlers and server shutdown -------------------
\* variant: the handler starts a game loop for the client that connects
test_connect_starts_loop ==
    /\ ~stopped
    /\ clients < MaxClients
    /\ clients' = clients + 1
    /\ timers' = timers + 1
    /\ UNCHANGED <<board, db, events, tpc, tmove, tk, finished,
                   failures, opc, osnap, stopped>>

\* @socketio.on('connect'): app.logger.info("Client connected.")
test_connect ==
    /\ ~stopped
    /\ clients < MaxClients
    /\ clients' = clients + 1
    /\ UNCHANGED <<board, db, events, timers, tpc, tmove, tk, finished,
                   failures, opc, osnap, stopped>>

\* @socketio.on('disconnect'): app.logger.info("Client disconnected.")
test_disconnect ==
    /\ clients > 0
    /\ clients' = clients - 1
    /\ UNCHANGED <<board, db, events, timers, tpc, tmove, tk, finished,
                   failures, opc, osnap, stopped>>

\* socketio.run(app) returns and the main thread ends: the server is gone,
\* and with it the connected clients and the request being served.  No
\* reference to the Timer object is kept, so nothing cancels it: started
\* timers stay pending and their (non-daemon) threads go on to run play_chess
Shutdown ==
    /\ ~stopped
    /\ stopped' = TRUE
    /\ clients' = 0
    /\ opc' = "idle"
    /\ osnap' = EmptySnap
    /\ UNCHANGED <<board, db, events, timers, tpc, tmove, tk, finished,
                   failures>>

Next ==
    \/ \E t \in Threads : TimerFire(t)
    \/ \E t \in Threads : Check(t)
    \/ \E t \in Threads : Record(t)
    \/ \E t \in Threads : RecordFails(t)
    \/ \E t \in Threads : EmitGameOver(t)
    \/ \E t \in Threads : Reset(t)
    \/ \E t \in Threads : Select(t)
    \/ \E t \in Threads : Push(t)
    \/ \E t \in Threads : EmitMove(t)
    \/ \E t \in Threads : Schedule(t)
    \/ IndexStart
    \/ ReadNGames
    \/ ReadWhiteWins
    \/ ReadBlackWins
    \/ ReadDraws
    \/ ReadTotalMoves
    \/ Render
    \/ test_connect
    \/ test_disconnect
    \/ Shutdown

Spec == Init /\ [][Next]_vars


\* a step of the game loop: a timer firing or a statement of play_chess
TickStep ==
    \E t \in Threads :
        \/ TimerFire(t) \/ Check(t) \/ Record(t) \/ RecordFails(t)
        \/ EmitGameOver(t) \/ Reset(t) \/ Select(t) \/ Push(t)
        \/ EmitMove(t) \/ Schedule(t)

\* a started timer fires and a running thread goes on to its next statement;
\* whether an INSERT succeeds is not up to the scheduler
LiveSpec == Init /\ [][Next]_vars /\ WF_vars(TickStep)

\* ---- properties --------------------------------------------------------
InFlight == {t \in Threads : tpc[t] # "idle"}

Min(a, b) == IF a < b THEN a ELSE b

IsGameOver(e) == e.type = "game_over"

GameOvers == SelectSeq(events, IsGameOver)

\* the side that played the last move of a game
LastMover(b) == IF Len(b.move_stack) % 2 = 1 THEN "white" ELSE "black"

TypeOK ==
    /\ timers \in Nat
    /\ failures \in Nat
    /\ tpc \in [Threads -> {"idle", "check", "record", "game_over", "reset",
                            "select", "push", "emit_move", "schedule"}]
    /\ tmove \in [Threads -> {"none", "quiet", "mate", "stale"}]
    /\ opc \in {"idle", "n_games", "n_white_wins", "n_black_wins",
                "n_draws", "n_moves", "render"}
    /\ Len(db) <= Len(finished)
    /\ stopped \in BOOLEAN
    /\ clients \in 0..MaxClients

\* C1: no tick overlap - in every reachable state at most one execution of
\* play_chess is in flight; a tick starts only after the previous one has
\* gone through all of its steps, however short the timer interval.
NoTickOverlap == Cardinality(InFlight) <= 1

\* a tick started by a timer, after an earlier tick has made its move
NoTickOverlapWitness ==
    \E t \in Threads : tpc[t] = "check" /\ Len(events) > 0 /\ timers = 0

\* C2: if the record insert fails during the finalizing part of a tick, the
\* loop still resets the board and schedules a next tick: once the failing
\* tick is over, the board is no longer terminal and a timer is pending or a
\* new tick is running.
InsertFailureDoesNotStall ==
    (failures > 0 /\ InFlight = {}) =>
        (timers > 0 /\ ~is_game_over(board))

ResetAtTickEnd ==
    \A t \in Threads :
        (tpc[t] = "schedule" /\ tk[t].terminal) =>
            (board.move_stack = <<>> /\ board = InitBoard)

\* C4 amended: right after the reset step of a finalizing tick the board has
\* an empty move history and the initial position, whatever the outcome of
\* the finished game; at the end of that tick it is the initial position
\* with exactly one move played.
ResetIsFresh ==
    \A t \in Threads :
        /\ (tpc[t] = "select" /\ tk[t].terminal) =>
              (board.move_stack = <<>> /\ board = InitBoard)
        /\ (tpc[t] = "schedule" /\ tk[t].terminal) =>
              /\ Len(board.move_stack) = 1
              /\ board = push(InitBoard, board.move_stack[1])

\* just reset, after one game won by white and one drawn game
ResetIsFreshWitness ==
    \E t \in Threads :
        /\ tpc[t] = "select" /\ tk[t].terminal /\ board = InitBoard
        /\ Len(db) = 2
        /\ {db[1].winner, db[2].winner} = {"white", "null"}

\* C5: observed between ticks, after any number of completed games, the
\* statistics satisfy n_games = n_white_wins + n_black_wins + n_draws.
StatsSumBetweenTicks ==
    InFlight = {} =>
        LET s == get_state(db)
        IN s.n_games = s.n_white_wins + s.n_black_wins + s.n_draws

\* between ticks, with a decided and a drawn game stored
StatsSumWitness ==
    /\ InFlight = {}
    /\ Len(db) = 2
    /\ get_n_draws(db) = 1

\* C6: every dict that get_state hands to the request handler is a snapshot
\* of one set of stored rows: its counters add up and all equal the counts
\* over one prefix of the table, also when the reads interleave with a
\* tick's insert.
SnapshotIsPointInTime ==
    opc = "render" =>
        /\ osnap.n_games =
              osnap.n_white_wins + osnap.n_black_wins + osnap.n_draws
        /\ \E k \in 0..Len(db) : osnap = get_state(SubSeq(db, 1, k))

\* C7: the n_moves stored for a finished game is the number of plies played
\* in that game.
RecordedMovesArePlies ==
    \A i \in 1..Min(Len(db), Len(finished)) :
        db[i].n_moves = Len(finished[i].move_stack)

\* C8: the outcome columns of every stored row agree with how its game
\* ended: a win has is_draw = 0 and winner the mating side, a draw has
\* is_draw = 1 and winner null; is_draw = 1 exactly when winner is null.
OutcomeFieldsAgree ==
    \A i \in 1..Min(Len(db), Len(finished)) :
        LET g == finished[i]
            r == db[i]
        IN /\ r.pgn.moves = g.move_stack
           /\ g.status = "checkmate" =>
                 (r.is_draw = 0 /\ r.winner = LastMover(g))
           /\ g.status \in {"stalemate", "seventyfive"} =>
                 (r.is_draw = 1 /\ r.winner = "null")
           /\ (r.is_draw = 1) <=> (r.winner = "null")

\* rows of a game won by white, a game won by black or drawn by rule
OutcomeFieldsWitness ==
    /\ Len(db) = 2
    /\ db[1].winner = "white"
    /\ db[2].winner = "null"
    /\ finished[2].status = "seventyfive"

\* C9 as stated: in every reachable state the number of stored rows equals
\* the number of games that have reached a terminal status.
RowsEqualFinishedGames == Len(db) = Len(finished)

\* C9 amended: the number of stored rows is the number of games that have
\* reached a terminal status, or one less while the board is terminal and
\* the row of that game has not (yet) been inserted; the i-th row is the row
\* of the i-th finished game, and a row is only ever inserted, one at a
\* time, from a terminal board.
RowPerFinishedGame ==
    /\ [](/\ Len(db) \in {Len(finished) - 1, Len(finished)}
          /\ Len(db) < Len(finished) => is_game_over(board)
          /\ \A i \in 1..Min(Len(db), Len(finished)) :
                /\ db[i].pgn.moves = finished[i].move_stack
                /\ is_game_over(finished[i]))
    /\ [][db' # db => /\ is_game_over(board)
                      /\ Len(db') = Len(db) + 1
                      /\ SubSeq(db', 1, Len(db)) = db]_vars

\* the second game has ended and only the first has a row
RowPerFinishedGameWitness ==
    /\ Len(db) = 1
    /\ Len(finished) = 2
    /\ is_game_over(board)

\* C10: a finalizing tick inserts the row, then emits game_over, then resets
\* the board: the row is built from the finished board, and the statistics
\* of every game_over event already count the game that just finished.
FinalizeOrder ==
    /\ \A t \in Threads :
          /\ tpc[t] = "game_over" =>
                /\ tk[t].records = 1 /\ tk[t].game_overs = 0
                /\ tk[t].resets = 0
                /\ is_game_over(board)
                /\ db[Len(db)].pgn.moves = board.move_stack
          /\ tpc[t] = "reset" =>
                /\ tk[t].records = 1 /\ tk[t].game_overs = 1
                /\ tk[t].resets = 0
                /\ is_game_over(board)
                /\ db[Len(db)].pgn.moves = board.move_stack
                /\ events[Len(events)].type = "game_over"
                /\ events[Len(events)].data = get_state(db)
          /\ tk[t].resets = 1 =>
                (tk[t].records = 1 /\ tk[t].game_overs = 1)
    /\ \A k \in 1..Len(GameOvers) :
          /\ k <= Len(db)
          /\ GameOvers[k].data.n_games = k
          /\ GameOvers[k].data = get_state(SubSeq(db, 1, k))

\* the second game_over event has just been emitted, the board not yet reset
FinalizeOrderWitness ==
    \E t \in Threads :
        /\ tpc[t] = "reset"
        /\ Len(GameOvers) = 2
        /\ is_game_over(board)

\* the members of a list
Members(list) == {list[i] : i \in 1..Len(list)}

\* C14: whenever play_chess selects a move the board is not terminal and its
\* list of legal moves is not empty, and the move it goes on to apply is a
\* member of that list; no tick ever picks from an empty list (the only
\* exception that ends a tick is a failed insert).
MoveSelectedFromLegalMoves ==
    \A t \in Threads :
        /\ tpc[t] = "select" =>
              (~is_game_over(board) /\ Len(legal_moves(board)) > 0)
        /\ tpc[t] = "push" =>
              (~is_game_over(board) /\ tmove[t] \in Members(legal_moves(board)))
        /\ tk[t].moves > 0 => tk[t].legal
        /\ tk[t].crashed => failures > 0

\* a move has been selected for the new game right after a reset
MoveSelectedWitness ==
    \E t \in Threads :
        tpc[t] = "push" /\ tk[t].terminal /\ tmove[t] = "quiet"

\* n rows whose columns carry no information
BlankRows(n) ==
    [i \in 1..n |-> [is_draw |-> 0, n_moves |-> 0, winner |-> "null",
                     pgn |-> [Round |-> 0, Result |-> "*", moves |-> <<>>]]]

AddRow(total, row) ==
    [n_games |-> total.n_games + 1,
     n_white_wins |-> total.n_white_wins
        + (IF row.is_draw = 0 /\ row.winner = "white" THEN 1 ELSE 0),
     n_black_wins |-> total.n_black_wins
        + (IF row.is_draw = 0 /\ row.winner = "black" THEN 1 ELSE 0),
     n_draws |-> total.n_draws + (IF row.is_draw = 1 THEN 1 ELSE 0),
     n_moves |-> total.n_moves + row.n_moves]

RECURSIVE RunningTotal(_)
RunningTotal(rows) ==
    IF rows = <<>> THEN EmptySnap
    ELSE AddRow(RunningTotal(SubSeq(rows, 1, Len(rows) - 1)),
                rows[Len(rows)])

\* C16: for every sequence of recorded games the dict computed by get_state
\* with queries over all stored rows equals the running total updated on
\* each insert: n_games is the number of rows, each outcome counter the
\* number of rows with that outcome, n_moves the sum of the rows' n_moves.
RecomputationEqualsRunningTotal ==
    /\ get_state(db) = RunningTotal(db)
    /\ get_state(db).n_games = Len(db)

\* two stored games, one decided and one drawn, with moves to add up
RunningTotalWitness ==
    /\ Len(db) = 2
    /\ RunningTotal(db).n_draws = 1
    /\ RunningTotal(db).n_black_wins = 1
    /\ RunningTotal(db).n_moves > 2

\* C17: no double-fire - in a run without failures the number of pending
\* timers plus the number of ticks being executed is exactly one in every
\* reachable state; a timer is only ever started by a tick, one at a time,
\* as the last step of that tick.
NoDoubleFire ==
    /\ [](failures = 0 => timers + Cardinality(InFlight) = 1)
    /\ [][timers' > timers =>
             /\ timers' = timers + 1
             /\ \E t \in Threads :
                   tpc[t] = "schedule" /\ tpc'[t] = "idle"]_vars

\* between two ticks of a run without failures, one game already stored
NoDoubleFireWitness ==
    /\ failures = 0
    /\ timers = 1
    /\ InFlight = {}
    /\ Len(db) = 1

\* the board reached from the initial position by a sequence of moves
RECURSIVE Replay(_)
Replay(stack) ==
    IF stack = <<>> THEN InitBoard
    ELSE push(Replay(SubSeq(stack, 1, Len(stack) - 1)), stack[Len(stack)])

\* the 'move' event of the position reached by the first j moves of a game
MoveEvent(stack, j) ==
    [type |-> "move", data |-> fen(Replay(SubSeq(stack, 1, j)))]

\* the 'move' events of the first n moves of a game, in the order played
GameStream(stack, n) == [j \in 1..n |-> MoveEvent(stack, j)]

\* the stream of the first k finished games: for each game its 'move'
\* events followed by its game_over event
RECURSIVE FinishedStream(_)
FinishedStream(k) ==
    IF k = 0 THEN <<>>
    ELSE FinishedStream(k - 1)
         \o GameStream(finished[k].move_stack, Len(finished[k].move_stack))
         \o <<GameOvers[k]>>

\* C18: the broadcast stream mirrors the game - the events between two
\* consecutive game_over events (or before the first) are exactly the 'move'
\* events of the plies of the game finalized by the second one, one per ply,
\* in the order played, each carrying the position reached by its move; the
\* events after the latest game_over are those of the moves applied so far
\* in the current game.
StreamMirrorsGame ==
    LET being_emitted == IF \E t \in Threads : tpc[t] = "emit_move"
                         THEN 1 ELSE 0
        n == IF \E t \in Threads : tpc[t] = "reset" THEN 0
             ELSE Len(board.move_stack) - being_emitted
    IN /\ Len(GameOvers) <= Len(finished)
       /\ events = FinishedStream(Len(GameOvers))
                      \o GameStream(board.move_stack, n)

\* two games broadcast and finalized, the second with more plies than the
\* first, and the first move of the third game broadcast
StreamMirrorsGameWitness ==
    /\ Len(GameOvers) = 2
    /\ Len(finished[2].move_stack) > Len(finished[1].move_stack)
    /\ events[Len(events)].type = "move"
    /\ events[Len(events) - 1].type = "game_over"

\* C19: round numbering - the Round header written for a finished game is
\* the number of rows already stored plus one, so the k-th stored row
\* carries Round k: rounds are unique and consecutive from 1.
RoundIsRowNumber ==
    /\ [](/\ \A k \in 1..Len(db) : db[k].pgn.Round = k
          /\ \A i, j \in 1..Len(db) :
                db[i].pgn.Round = db[j].pgn.Round => i = j)
    /\ [][db' # db =>
             db'[Len(db')].pgn.Round = get_n_of_games(db) + 1]_vars

\* the second stored row carries Round 2
RoundIsRowNumberWitness ==
    /\ failures = 0
    /\ Len(db) = 2
    /\ db[2].pgn.Round = 2

\* C13: observer operations have no effect on the game loop - a step of a
\* subscriber connect, a subscriber disconnect or the statistics query of
\* index leaves the board, the stored rows, the pending timers, the running
\* ticks and the broadcast stream unchanged; the board is only ever changed
\* by the reset or the push of a tick.
ObserversLeaveLoopAlone ==
    /\ [][(clients' # clients \/ opc' # opc) =>
             UNCHANGED <<board, db, timers, tpc, tmove, events>>]_vars
    /\ [][board' # board =>
             \E t \in Threads :
                tpc[t] \in {"reset", "push"} /\ tpc'[t] # tpc[t]]_vars

\* a client is connected and a statistics query is being answered while a
\* game is under way and the next tick is pending
ObserversWitness ==
    /\ clients = 1
    /\ opc = "render"
    /\ Len(board.move_stack) > 0
    /\ timers = 1

\* C11: the loop never stalls - under a fair timer every completed tick is
\* followed by another tick, and every game that has reached a terminal
\* status is finalized and followed by a freshly reset game (stated for the
\* games below the bound on stored rows).
LoopNeverStalls ==
    /\ (InFlight = {} /\ Len(db) < MaxGames) ~> (InFlight # {})
    /\ (is_game_over(board) /\ Len(db) < MaxGames) ~> (board = InitBoard)

\* C12: shutdown cancels the pending timer - once socketio.run has returned
\* no timer is pending, so no further tick can start.
ShutdownCancelsTimer == stopped => timers = 0
====
